---- MODULE Spec2Model ----
(***************************************************************************)
(* Model of cron/invite_valid_response.py: the batch that deduplicates     *)
(* survey responses, validates each respondent against the Synapse         *)
(* platform, invites the valid ones to the data access team and mails a    *)
(* summary to the administrator.                                           *)
(*                                                                         *)
(* The platform (team membership, open invitations, user profiles) is the  *)
(* environment: its answers are read from the platform variables, and a    *)
(* call that can raise does so by a nondeterministic choice.               *)
(***************************************************************************)
EXTENDS Integers, Sequences, FiniteSets, TLC

\* ------------------------------------------------------------------ bounds
MaxRows == 2        \* rows fetched from the sheet in a pipeline run
MaxDedupRows == 4   \* rows handed to get_unique_rows in SpecDedup
MaxChanges == 1     \* membership changes by other parties during a run (SpecChange)

\* --------------------------------------------------------------- constants
NONE == "<None>"        \* Python's None (also: key absent from a row)
RAISE == "<raise>"      \* an exception leaving the function

REGISTRATION_TEAM_ID == "3501723"
DATA_ACCESS_TEAM_ID == "3502558"
CHALLENGE_TEAM_ID == "3400001"   \* the one team registered for the challenge
CHALLENGE_ID == "5001"

TeamIds == {REGISTRATION_TEAM_ID, DATA_ACCESS_TEAM_ID, CHALLENGE_TEAM_ID}

\* The platform's accounts: ownerId -> userName.
OwnerIds == {"3001", "3002"}
UserNameOf == [o \in OwnerIds |-> IF o = "3001" THEN "alice" ELSE "bob"]

\* Values of the "Synapse Username" column.  "3001" is alice's ownerId typed
\* in as the user name, "nobody" is no account, "" an empty cell, NONE a row
\* without the column.  Empty and missing values never get past
\* get_unique_rows, so the pipeline's sheet is drawn from Claims.
Claims == {"alice", "3001", "bob", "nobody"}
DedupClaims == {"", NONE, "alice", "3001", "bob"}

\* What syn.getUserProfile does: answer, raise SynapseHTTPError, or raise
\* something else (connection error, timeout, ...).
CallOutcomes == {"ok", "http", "other"}

\* The platform call that fails while one response is evaluated (at most one
\* per response): the profile lookup with a SynapseHTTPError or with another
\* exception, the membership listing of the registration team, the
\* membership listing of the data access team, the open-invitation listing.
Faults == {"none", "profile_http", "profile_other", "registration", "membership",
           "invitations"}

ProfileOutcome(fault) ==
    IF fault = "profile_http" THEN "http"
    ELSE IF fault = "profile_other" THEN "other"
    ELSE "ok"

UnknownIdentity == "UnknownIdentity"
NotRegistered == "NotRegistered"
AlreadyMember == "AlreadyMember"
PendingInvitation == "PendingInvitation"
Accepted == "Accepted"

VARIABLES
    pc,                       \* position in __main__
    responses,                \* rows fetched from the sheet
    unique_responses,         \* get_unique_rows(responses)
    challenge_id,
    registered_team_members,  \* get_all_registered_team_members(challenge_id)
    idx,                      \* next row of validate_responses' loop
    valid_responses,          \* validate_responses' list
    log,                      \* one entry per evaluated row (the logger's trail)
    jdx,                      \* next row of the invitation loop
    invites,                  \* calls of syn.invite_to_team, in order
    emails,                   \* calls of syn.sendMessage, in order
    teamMembers,              \* platform: team id -> ownerIds of its members
    openInvitations,          \* platform: ownerIds with an open invitation to the data access team
    reg_at_start,             \* history: registration team members when registered membership was read
    changes                   \* history: membership changes by other parties so far

vars == <<pc, responses, unique_responses, challenge_id, registered_team_members,
          idx, valid_responses, log, jdx, invites, emails, teamMembers,
          openInvitations, reg_at_start, changes>>

progVars == <<pc, responses, unique_responses, challenge_id, registered_team_members,
              idx, valid_responses, log, jdx, invites, emails>>

\* ------------------------------------------------------------ pure helpers
Truthy(v) == v # NONE /\ v # ""

Row(c, k) == [claim |-> c, ts |-> k, submitterid |-> NONE]

RowsOf(cs) == [k \in 1..Len(cs) |-> Row(cs[k], k)]

SeqsUpTo(S, n) == UNION {[1..m -> S] : m \in 0..n}

\* The dict of get_unique_rows: a sequence of <<key, row>> in insertion order.
HasKey(d, key) == \E p \in 1..Len(d) : d[p][1] = key

RECURSIVE UniqueRowsLoop(_, _, _)
UniqueRowsLoop(rows, k, d) ==
    IF k > Len(rows) THEN d
    ELSE LET key == rows[k].claim IN
         IF Truthy(key) /\ ~HasKey(d, key)
         THEN UniqueRowsLoop(rows, k + 1, Append(d, <<key, rows[k]>>))
         ELSE UniqueRowsLoop(rows, k + 1, d)

\* Mutant: the `key not in unique_rows` test is lost, so a later row
\* overwrites the stored one (the key keeps its place in the dict).
RECURSIVE OverwriteLoop(_, _, _)
OverwriteLoop(rows, k, d) ==
    IF k > Len(rows) THEN d
    ELSE LET key == rows[k].claim IN
         IF Truthy(key) /\ ~HasKey(d, key)
         THEN OverwriteLoop(rows, k + 1, Append(d, <<key, rows[k]>>))
         ELSE IF Truthy(key)
         THEN OverwriteLoop(rows, k + 1,
                  [p \in 1..Len(d) |-> IF d[p][1] = key THEN <<key, rows[k]>> ELSE d[p]])
         ELSE OverwriteLoop(rows, k + 1, d)

get_unique_rows_overwrite(rows) ==
    LET d == OverwriteLoop(rows, 1, <<>>) IN [p \in 1..Len(d) |-> d[p][2]]

get_unique_rows(rows) ==
    LET d == UniqueRowsLoop(rows, 1, <<>>) IN [p \in 1..Len(d) |-> d[p][2]]

\* syn.getUserProfile(user): the account whose ownerId or userName is `user`.
Resolve(user) ==
    IF \E o \in OwnerIds : user = o \/ user = UserNameOf[o]
    THEN CHOOSE o \in OwnerIds : user = o \/ user = UserNameOf[o]
    ELSE NONE

validate_synapse_user(user, outcome) ==
    IF ~Truthy(user) THEN NONE
    ELSE IF outcome = "other" THEN RAISE
    ELSE IF outcome = "http" THEN NONE
    ELSE Resolve(user)

\* members: what syn.getTeamMembers(team_id) yields (ownerIds); failed: it raised.
is_user_in_team(members, user_id, failed) ==
    IF failed THEN FALSE ELSE user_id \in members

has_pending_invitation(invitees, user_id, failed) ==
    IF failed THEN FALSE ELSE user_id \in invitees

get_team_members(members, failed) ==
    IF failed THEN {} ELSE {UserNameOf[m] : m \in members}

\* Mutant: the registration team is read from the start-of-run snapshot.
is_user_registered_snapshot(user_id, team_members, regMembers, failed) ==
    IF ~Truthy(user_id) THEN FALSE
    ELSE IF is_user_in_team(reg_at_start, user_id, failed) THEN TRUE
    ELSE user_id \in team_members

is_user_registered(user_id, team_members, regMembers, failed) ==
    IF ~Truthy(user_id) THEN FALSE
    ELSE IF is_user_in_team(regMembers, user_id, failed) THEN TRUE
    ELSE user_id \in team_members

\* ------------------------------------------------------------------- Init
\* The accounts the sheet names.  The others cannot influence any step and
\* are left out of the teams.
Named(rows) == {Resolve(rows[k].claim) : k \in 1..Len(rows)} \ {NONE}

PlatformInit ==
    /\ teamMembers \in [TeamIds -> SUBSET Named(responses)]
    /\ openInvitations \in SUBSET Named(responses)
    /\ reg_at_start = {}
    /\ changes = 0

ProgramInit ==
    /\ pc = "unique"
    /\ unique_responses = <<>>
    /\ challenge_id = NONE
    /\ registered_team_members = {}
    /\ idx = 1
    /\ valid_responses = <<>>
    /\ log = <<>>
    /\ jdx = 1
    /\ invites = <<>>
    /\ emails = <<>>

Init ==
    /\ responses \in {RowsOf(cs) : cs \in SeqsUpTo(Claims, MaxRows)}
    /\ ProgramInit
    /\ PlatformInit

\* ---------------------------------------------------------------- actions
GetUniqueRows ==
    /\ pc = "unique"
    /\ unique_responses' = get_unique_rows(responses)
    /\ pc' = "challenge"
    /\ UNCHANGED <<responses, challenge_id, registered_team_members, idx,
                   valid_responses, log, jdx, invites, emails, teamMembers,
                   openInvitations, reg_at_start, changes>>

GetChallengeId ==
    /\ pc = "challenge"
    /\ \E failed \in BOOLEAN :
         challenge_id' = IF failed THEN NONE ELSE CHALLENGE_ID
    /\ pc' = "members"
    /\ UNCHANGED <<responses, unique_responses, registered_team_members, idx,
                   valid_responses, log, jdx, invites, emails, teamMembers,
                   openInvitations, reg_at_start, changes>>

\* The challengeTeam listing fails for a challenge id of None.
get_registered_teams(cid, failed) ==
    IF failed \/ cid = NONE THEN {} ELSE {CHALLENGE_TEAM_ID}

GetAllRegisteredTeamMembers ==
    /\ pc = "members"
    /\ \E failedTeams \in BOOLEAN, failedMembers \in BOOLEAN :
         registered_team_members' =
             UNION {get_team_members(teamMembers[t], failedMembers) :
                        t \in get_registered_teams(challenge_id, failedTeams)}
    /\ reg_at_start' = teamMembers[REGISTRATION_TEAM_ID]
    /\ pc' = "validate"
    /\ UNCHANGED <<responses, unique_responses, challenge_id, idx,
                   valid_responses, log, jdx, invites, emails, teamMembers,
                   openInvitations, changes>>

\* One iteration of validate_responses' loop.
Decision(user_id, registered, member, pending) ==
    IF ~Truthy(user_id) THEN UnknownIdentity
    ELSE IF ~registered THEN NotRegistered
    ELSE IF member THEN AlreadyMember
    ELSE IF pending THEN PendingInvitation
    ELSE Accepted

ValidateRow ==
    /\ pc = "validate"
    /\ idx <= Len(unique_responses)
    /\ \E fault \in Faults :
         LET row == unique_responses[idx]
             user_id == validate_synapse_user(row.claim, ProfileOutcome(fault))
         IN  IF user_id = RAISE
             THEN /\ pc' = "aborted"
                  /\ UNCHANGED <<idx, valid_responses, log>>
             ELSE LET registered == is_user_registered(user_id, registered_team_members,
                                        teamMembers[REGISTRATION_TEAM_ID],
                                        fault = "registration")
                      member == is_user_in_team(teamMembers[DATA_ACCESS_TEAM_ID], user_id,
                                        fault = "membership")
                      pending == has_pending_invitation(openInvitations, user_id,
                                        fault = "invitations")
                      dec == Decision(user_id, registered, member, pending)
                      asked == Truthy(user_id)
                      \* the fault, when the call it is about was made
                      met == \/ fault = "profile_http"
                             \/ asked /\ fault = "registration"
                             \/ asked /\ registered /\ fault = "membership"
                             \/ asked /\ registered /\ ~member /\ fault = "invitations"
                      entry == [claim |-> row.claim,
                                user_id |-> user_id,
                                regPassed |-> registered,
                                inReg |-> asked /\ user_id \in teamMembers[REGISTRATION_TEAM_ID],
                                inTarget |-> asked /\ user_id \in teamMembers[DATA_ACCESS_TEAM_ID],
                                invited |-> asked /\ user_id \in openInvitations,
                                fault |-> IF met THEN fault ELSE "none",
                                decision |-> dec]
                  IN /\ valid_responses' =
                            IF dec = Accepted
                            THEN Append(valid_responses, [row EXCEPT !.submitterid = user_id])
                            ELSE valid_responses
                     /\ log' = Append(log, entry)
                     /\ idx' = idx + 1
                     /\ pc' = pc
    /\ UNCHANGED <<responses, unique_responses, challenge_id, registered_team_members,
                   jdx, invites, emails, teamMembers, openInvitations,
                   reg_at_start, changes>>

\* validate_responses returns; `if valid_responses:` is true.
StartInvitations ==
    /\ pc = "validate"
    /\ idx > Len(unique_responses)
    /\ valid_responses # <<>>
    /\ pc' = "invite"
    /\ UNCHANGED <<responses, unique_responses, challenge_id, registered_team_members,
                   idx, valid_responses, log, jdx, invites, emails, teamMembers,
                   openInvitations, reg_at_start, changes>>

\* Mutant: the `if valid_responses:` test is lost around the notification,
\* so the summary is mailed for an empty batch too.
SkipInvitations_notifies ==
    /\ pc = "validate"
    /\ idx > Len(unique_responses)
    /\ valid_responses = <<>>
    /\ emails' = Append(emails, [rows |-> valid_responses, ok |-> TRUE])
    /\ pc' = "done"
    /\ UNCHANGED <<responses, unique_responses, challenge_id, registered_team_members,
                   idx, valid_responses, log, jdx, invites, teamMembers,
                   openInvitations, reg_at_start, changes>>

\* validate_responses returns; the else branch of `if valid_responses:`.
SkipInvitations ==
    /\ pc = "validate"
    /\ idx > Len(unique_responses)
    /\ valid_responses = <<>>
    /\ pc' = "done"
    /\ UNCHANGED <<responses, unique_responses, challenge_id, registered_team_members,
                   idx, valid_responses, log, jdx, invites, emails, teamMembers,
                   openInvitations, reg_at_start, changes>>

\* Mutant: the try/except is around the loop instead of inside
\* invite_user_to_team, so the first failed invitation ends the loop.
InviteNext_stops ==
    /\ pc = "invite"
    /\ jdx <= Len(valid_responses)
    /\ LET user_id == valid_responses[jdx].submitterid IN
         \E failed \in BOOLEAN :
            /\ invites' = Append(invites, [user |-> user_id, ok |-> ~failed])
            /\ openInvitations' = IF failed THEN openInvitations
                                  ELSE openInvitations \cup {user_id}
            /\ jdx' = IF failed THEN Len(valid_responses) + 1 ELSE jdx + 1
    /\ UNCHANGED <<pc, responses, unique_responses, challenge_id, registered_team_members,
                   idx, valid_responses, log, emails, teamMembers,
                   reg_at_start, changes>>

\* Mutant: the invitation is sent from inside the evaluation loop, as soon
\* as a response has been accepted.
InviteNext_early ==
    /\ pc \in {"validate", "invite"}
    /\ jdx <= Len(valid_responses)
    /\ LET user_id == valid_responses[jdx].submitterid IN
         \E failed \in BOOLEAN :
            /\ invites' = Append(invites, [user |-> user_id, ok |-> ~failed])
            /\ openInvitations' = IF failed THEN openInvitations
                                  ELSE openInvitations \cup {user_id}
    /\ jdx' = jdx + 1
    /\ UNCHANGED <<pc, responses, unique_responses, challenge_id, registered_team_members,
                   idx, valid_responses, log, emails, teamMembers,
                   reg_at_start, changes>>

\* One iteration of the invitation loop: invite_user_to_team.
InviteNext ==
    /\ pc = "invite"
    /\ jdx <= Len(valid_responses)
    /\ LET user_id == valid_responses[jdx].submitterid IN
         IF Truthy(user_id)
         THEN \E failed \in BOOLEAN :
                 /\ invites' = Append(invites, [user |-> user_id, ok |-> ~failed])
                 /\ openInvitations' = IF failed THEN openInvitations
                                       ELSE openInvitations \cup {user_id}
         ELSE UNCHANGED <<invites, openInvitations>>
    /\ jdx' = jdx + 1
    /\ UNCHANGED <<pc, responses, unique_responses, challenge_id, registered_team_members,
                   idx, valid_responses, log, emails, teamMembers,
                   reg_at_start, changes>>

\* admin_id = syn.getUserProfile()["ownerId"], outside any try.
GetAdminProfile ==
    /\ pc = "invite"
    /\ jdx > Len(valid_responses)
    /\ \E failed \in BOOLEAN : pc' = IF failed THEN "aborted" ELSE "email"
    /\ UNCHANGED <<responses, unique_responses, challenge_id, registered_team_members,
                   idx, valid_responses, log, jdx, invites, emails, teamMembers,
                   openInvitations, reg_at_start, changes>>

SendEmailToAdmin ==
    /\ pc = "email"
    /\ \E failed \in BOOLEAN :
         emails' = Append(emails, [rows |-> valid_responses, ok |-> ~failed])
    /\ pc' = "done"
    /\ UNCHANGED <<responses, unique_responses, challenge_id, registered_team_members,
                   idx, valid_responses, log, jdx, invites, teamMembers,
                   openInvitations, reg_at_start, changes>>

\* Another party joins or leaves the registration team or the challenge
\* team while the responses are being evaluated.
PlatformChange ==
    /\ pc = "validate"
    /\ changes < MaxChanges
    /\ \E t \in {REGISTRATION_TEAM_ID, CHALLENGE_TEAM_ID}, o \in Named(responses) :
         teamMembers' = [teamMembers EXCEPT ![t] =
                            IF o \in @ THEN @ \ {o} ELSE @ \cup {o}]
    /\ changes' = changes + 1
    /\ UNCHANGED <<progVars, openInvitations, reg_at_start>>

Next ==
    \/ GetUniqueRows
    \/ GetChallengeId
    \/ GetAllRegisteredTeamMembers
    \/ ValidateRow
    \/ StartInvitations
    \/ SkipInvitations
    \/ InviteNext
    \/ GetAdminProfile
    \/ SendEmailToAdmin

Spec == Init /\ [][Next]_vars

\* The batch while other parties change team membership, started on a data
\* access team that has no member and no open invitation yet.
InitChange ==
    /\ Init
    /\ teamMembers[DATA_ACCESS_TEAM_ID] = {}
    /\ openInvitations = {}

NextChange ==
    \/ Next
    \/ PlatformChange

SpecChange == InitChange /\ [][NextChange]_vars

\* get_unique_rows alone, on sheets with empty and missing user names.
InitDedup ==
    /\ responses \in {RowsOf(cs) : cs \in SeqsUpTo(DedupClaims, MaxDedupRows)}
    /\ ProgramInit
    /\ teamMembers = [t \in TeamIds |-> {}]
    /\ openInvitations = {}
    /\ reg_at_start = {}
    /\ changes = 0

NextDedup == GetUniqueRows

SpecDedup == InitDedup /\ [][NextDedup]_vars

\* ================================================================= claims
RowClaims(rows) == [k \in 1..Len(rows) |-> rows[k].claim]

Ids(rows) == [k \in 1..Len(rows) |-> rows[k].submitterid]

Attempts == [j \in 1..Len(invites) |-> invites[j].user]

\* The account of log entry e is registered: a direct member of the
\* registration team, or one of the accounts whose membership of a registered
\* team was read at the start of the run.
RegisteredAccount(e) ==
    \/ e.inReg
    \/ UserNameOf[e.user_id] \in registered_team_members

\* C1: every response evaluated with all platform queries answering gets the
\* outcome of the first matching check, in the order identity, registration,
\* already-member, pending-invitation: UnknownIdentity for an unresolvable
\* claim; NotRegistered for an account that is not registered, whatever its
\* membership and invitations; AlreadyMember for a registered member of the
\* data access team, whatever its invitations; PendingInvitation for a
\* registered non-member with an open invitation; Accepted otherwise.
C1_FixedOrder ==
    \A k \in 1..Len(log) :
        LET e == log[k] IN
        e.fault = "none" =>
            e.decision =
                IF Resolve(e.claim) = NONE THEN UnknownIdentity
                ELSE IF ~RegisteredAccount(e) THEN NotRegistered
                ELSE IF e.inTarget THEN AlreadyMember
                ELSE IF e.invited THEN PendingInvitation
                ELSE Accepted

\* C2: a response during whose evaluation a membership query or the
\* pending-invitation query failed is rejected: it is not accepted, so it is
\* not in valid_responses and no invitation is sent for it.
C2_FailedQueryRejects ==
    \A k \in 1..Len(log) :
        log[k].fault \in {"registration", "membership", "invitations"}
            => log[k].decision # Accepted

\* C3: in any run, invite_to_team is called at most once for each account id.
C3_AtMostOneInvitePerAccount ==
    \A o \in OwnerIds :
        Cardinality({j \in 1..Len(invites) : invites[j].user = o}) <= 1

\* C4: for a resolved account and answering queries, the registration check
\* passes exactly when the account is a direct member of the registration
\* team or a member of a registered team (as read at the start of the run).
C4_RegistrationCheck ==
    \A k \in 1..Len(log) :
        LET e == log[k] IN
        (e.user_id # NONE /\ e.fault = "none")
            => (e.regPassed <=> RegisteredAccount(e))

C6_NeverAborts ==
    pc \in {"done", "aborted"} =>
        /\ Len(log) = Len(unique_responses)
        /\ Len(invites) = Len(valid_responses)
        /\ (valid_responses # <<>> => emails # <<>>)

\* C7: get_unique_rows returns exactly the first row of each non-empty user
\* name, in the order in which those names first appear.
FirstSeen(rows) ==
    {k \in 1..Len(rows) :
        /\ rows[k].claim # NONE
        /\ rows[k].claim # ""
        /\ \A j \in 1..(k - 1) : rows[j].claim # rows[k].claim}

NthFirstSeen(rows, p) ==
    CHOOSE k \in FirstSeen(rows) : Cardinality({j \in FirstSeen(rows) : j <= k}) = p

C7_FirstRowPerClaim ==
    pc # "unique" =>
        /\ Len(unique_responses) = Cardinality(FirstSeen(responses))
        /\ \A p \in 1..Len(unique_responses) :
              unique_responses[p] = responses[NthFirstSeen(responses, p)]

\* C7 witness: the sheet alice, alice, empty, bob gave the rows 1 and 4.
C7_Witness ==
    /\ pc # "unique"
    /\ RowClaims(responses) = <<"alice", "alice", "", "bob">>
    /\ unique_responses = <<responses[1], responses[4]>>

\* C8: the notification is sent at most once, only after an invitation has
\* been attempted for every accepted response; with no accepted response
\* there is neither an invitation nor a notification.
C8_NotifyOnceAfterInvites ==
    /\ Len(emails) <= 1
    /\ emails # <<>> => /\ Attempts = Ids(valid_responses)
                        /\ emails[1].rows = valid_responses
    /\ valid_responses = <<>> => (invites = <<>> /\ emails = <<>>)

\* C8 witness: the notification went out after two invitation attempts, the
\* first of which failed.
C8_Witness ==
    /\ pc = "done"
    /\ Len(emails) = 1
    /\ Len(invites) = 2
    /\ ~invites[1].ok

\* C9: whichever invitation calls fail, the invitation attempts made so far
\* are the accepted responses' accounts in acceptance order, one attempt
\* each, and once the loop is over every accepted response has had its
\* attempt.
C9_OneAttemptEach ==
    /\ Len(invites) <= Len(valid_responses)
    /\ Attempts = SubSeq(Ids(valid_responses), 1, Len(invites))
    /\ pc = "invite" => Len(invites) = jdx - 1
    /\ pc \in {"email", "done"} => Attempts = Ids(valid_responses)

\* C9 witness: the first of two accepted accounts' invitations failed and
\* the second account was invited all the same.
C9_Witness ==
    /\ pc = "done"
    /\ Len(invites) = 2
    /\ ~invites[1].ok
    /\ invites[2].ok
    /\ invites[1].user # invites[2].user

\* C10: no invitation is sent before every deduplicated response has been
\* evaluated, and from the first invitation on the evaluation's results (the
\* accepted list and the decisions) no longer change.
C10_EvaluateThenInvite ==
    /\ [](invites # <<>> => /\ idx > Len(unique_responses)
                            /\ Len(log) = Len(unique_responses)
                            /\ pc # "validate")
    /\ [][(pc \in {"invite", "email", "done"}) =>
              (valid_responses' = valid_responses /\ log' = log)]_vars

\* C10 witness: two responses of one account were both accepted (the second
\* check saw no invitation for the first), and then the invitations went out.
C10_Witness ==
    /\ Len(log) = 2
    /\ log[1].user_id = log[2].user_id
    /\ log[1].decision = Accepted
    /\ log[2].decision = Accepted
    /\ Len(invites) = 2
    /\ invites[1].ok

====
